---- MODULE Spec2Model ----
(***************************************************************************)
(* UTF-8 -> UTF-16 conversion of FAudio_platform_sdl2.c (taken from        *)
(* PhysicsFS): the decoder FAudio_UTF8_CodePoint and the bounded writer    *)
(* FAudio_UTF8_To_UTF16.                                                   *)
(*                                                                         *)
(* Memory is a sequence of bytes (1-based: the C pointer src + k is index  *)
(* k + 1).  The destination is a sequence of 16-bit cells (cell i is the   *)
(* C unit index i - 1) and a write pointer dp (a C unit index).            *)
(***************************************************************************)
EXTENDS Integers, Sequences, FiniteSets

VARIABLES
    mem,     \* source memory: the string, its NUL, and what was read after it
    nul,     \* index in mem of the source's first zero byte (its terminator)
    cur,     \* the cursor *_str / src, as an index into mem
    start,   \* the cursor on entry to the latest FAudio_UTF8_CodePoint call (0: none yet)
    raw,     \* the value that call returned
    cp,      \* FAudio_UTF8_To_UTF16's local cp
    dst,     \* destination cells, written or not
    dp,      \* FAudio_UTF8_To_UTF16's dst pointer, as a unit index (0-based)
    len,     \* FAudio_UTF8_To_UTF16's len, as the code updates it
    cap,     \* the len argument as the caller passed it (byte capacity)
    scalar,  \* the scalar whose encoding is the source (round trip runs), else -1
    pc       \* position in FAudio_UTF8_To_UTF16, or in the decoder's caller

vars == <<mem, nul, cur, start, raw, cp, dst, dp, len, cap, scalar, pc>>

---------------------------------------------------------------------------
(* Bounds of the model *)

\* tokens (byte forms) concatenated into a source string
MaxForms == 2
\* largest byte capacity passed as len
MaxCap == 8
\* bytes of memory after the terminator that a run may come to read
MaxGarbage == 2
\* bytes following the leading byte in a decoder-only run
MaxTail == 5

---------------------------------------------------------------------------
(* C arithmetic *)

\* sizeof (uint16_t)
UnitSize == 2

\* size_t arithmetic is modulo 2^w.  TLC's integers are 32-bit signed, so the
\* width is taken as 30 bits: len - sizeof (uint16_t) wraps to a budget that
\* exceeds every source the model holds, as it does for w = 32 or 64.
SizeMod == 1073741824

SizeSub(a, b) == (a - b + SizeMod) % SizeMod

\* 0xFFFFFFFF, (uint32_t) -1: beyond TLC's integers, written as -1.  It differs
\* from every value the decoder computes (all below 2^21).
UNICODE_BOGUS_CHAR_VALUE == -1

\* '?'
UNICODE_BOGUS_CHAR_CODEPOINT == 63

RECURSIVE BitAnd(_, _)
BitAnd(a, b) ==
    IF a = 0 \/ b = 0 THEN 0
    ELSE (IF a % 2 = 1 /\ b % 2 = 1 THEN 1 ELSE 0) + 2 * BitAnd(a \div 2, b \div 2)

RECURSIVE BitOr(_, _)
BitOr(a, b) ==
    IF a = 0 THEN b
    ELSE IF b = 0 THEN a
    ELSE (IF a % 2 = 1 \/ b % 2 = 1 THEN 1 ELSE 0) + 2 * BitOr(a \div 2, b \div 2)

\* x << n and x >> n on uint32_t; every operand here stays below 2^21
Shl(x, n) == x * (2 ^ n)
Shr(x, n) == x \div (2 ^ n)

---------------------------------------------------------------------------
(* FAudio_UTF8_CodePoint *)

\* *(str) at index i; a read outside the modelled memory is flagged by the
\* caller through the result's field last
Rd(m, i) == IF i >= 1 /\ i <= Len(m) THEN m[i] ELSE 0

\* (octet & (128+64)) != 128 is the code's "Format isn't 10xxxxxx?"
IsContinuation(b) == BitAnd(b, 128 + 64) = 128

\* a return of the decoder: the value, the cursor's advance, the last index read
Ret(v, a, l) == [cp |-> v, adv |-> a, last |-> l]

\* a decoder that would skip the continuation bytes it validated
BadContinuation_PastValidated(i, k) == Ret(UNICODE_BOGUS_CHAR_VALUE, k, i + k)

\* return UNICODE_BOGUS_CHAR_VALUE on a bad continuation byte at i + k: the
\* only cursor update so far is the (*_str)++ at the head of the branch
BadContinuation(i, k) == Ret(UNICODE_BOGUS_CHAR_VALUE, 1, i + k)

\* index (1..n) of the first of the n bytes after i that is no continuation
\* byte, 0 if all n are: the order in which the code reads and tests them
RECURSIVE FirstBad(_, _, _, _)
FirstBad(m, i, k, n) ==
    IF k > n THEN 0
    ELSE IF ~IsContinuation(Rd(m, i + k)) THEN k
    ELSE FirstBad(m, i, k + 1, n)

TwoOctets(m, i) ==
    LET octet  == Rd(m, i) - (128 + 64)
        octet2 == Rd(m, i + 1)
        retval == BitOr(Shl(octet, 6), octet2 - 128)
    IN  IF FirstBad(m, i, 1, 1) # 0 THEN BadContinuation(i, FirstBad(m, i, 1, 1))
        ELSE IF retval >= 128 /\ retval <= 2047 THEN Ret(retval, 2, i + 1)
        ELSE Ret(UNICODE_BOGUS_CHAR_VALUE, 2, i + 1)

\* a decoder that would reject every value of 0xD800..0xDFFF
IsIllegalSurrogate_WholeRange(retval) == retval >= 55296 /\ retval <= 57343

\* the switch on the seven "UTF-16 surrogates"
IsIllegalSurrogate(retval) ==
    retval \in {55296, 56191, 56192, 56319, 56320, 57216, 57343}

ThreeOctets(m, i) ==
    LET octet  == Rd(m, i) - (128 + 64 + 32)
        octet2 == Rd(m, i + 1)
        octet3 == Rd(m, i + 2)
        retval == BitOr(BitOr(Shl(octet, 12), Shl(octet2 - 128, 6)), octet3 - 128)
    IN  IF FirstBad(m, i, 1, 2) # 0 THEN BadContinuation(i, FirstBad(m, i, 1, 2))
        ELSE IF IsIllegalSurrogate(retval) THEN Ret(UNICODE_BOGUS_CHAR_VALUE, 3, i + 2)
        ELSE IF retval >= 2048 /\ retval <= 65533 THEN Ret(retval, 3, i + 2)
        ELSE Ret(UNICODE_BOGUS_CHAR_VALUE, 3, i + 2)

FourOctets(m, i) ==
    LET octet  == Rd(m, i) - (128 + 64 + 32 + 16)
        octet2 == Rd(m, i + 1)
        octet3 == Rd(m, i + 2)
        octet4 == Rd(m, i + 3)
        retval == BitOr(BitOr(BitOr(Shl(octet, 18), Shl(octet2 - 128, 12)),
                              Shl(octet3 - 128, 6)), octet4 - 128)
    IN  IF FirstBad(m, i, 1, 3) # 0 THEN BadContinuation(i, FirstBad(m, i, 1, 3))
        ELSE IF retval >= 65536 /\ retval <= 1114111 THEN Ret(retval, 4, i + 3)
        ELSE Ret(UNICODE_BOGUS_CHAR_VALUE, 4, i + 3)

\* (*_str)++ and then *_str += 4
FiveOctets(m, i) ==
    IF FirstBad(m, i, 1, 4) # 0 THEN BadContinuation(i, FirstBad(m, i, 1, 4))
    ELSE Ret(UNICODE_BOGUS_CHAR_VALUE, 1 + 4, i + 4)

\* (*_str)++ and then *_str += 6
SixOctets(m, i) ==
    IF FirstBad(m, i, 1, 5) # 0 THEN BadContinuation(i, FirstBad(m, i, 1, 5))
    ELSE Ret(UNICODE_BOGUS_CHAR_VALUE, 1 + 6, i + 5)

FAudio_UTF8_CodePoint(m, i) ==
    LET octet == Rd(m, i)
    IN  IF octet = 0 THEN Ret(0, 0, i)
        ELSE IF octet < 128 THEN Ret(octet, 1, i)
        ELSE IF octet > 127 /\ octet < 192 THEN Ret(UNICODE_BOGUS_CHAR_VALUE, 1, i)
        ELSE IF octet < 224 THEN TwoOctets(m, i)
        ELSE IF octet < 240 THEN ThreeOctets(m, i)
        ELSE IF octet < 248 THEN FourOctets(m, i)
        ELSE IF octet < 252 THEN FiveOctets(m, i)
        ELSE SixOctets(m, i)

---------------------------------------------------------------------------
(* Source strings *)

\* byte forms a device name is assembled from: well-formed sequences of each
\* length, and the malformed ones the decoder distinguishes
Forms ==
    { <<65>>,                              \* "A"
      <<128>>,                             \* a continuation byte as leading byte
      <<195, 169>>,                        \* U+00E9
      <<192, 128>>,                        \* overlong encoding of 0
      <<226, 130>>,                        \* three-octet form cut after one continuation
      <<237, 160, 128>>,                   \* U+D800
      <<237, 160, 129>>,                   \* U+D801
      <<237, 176, 129>>,                   \* U+DC01
      <<240, 144, 128, 128>>,              \* U+10000
      <<244, 143, 191, 191>>,              \* U+10FFFF
      <<248, 128, 128, 128, 128>>,         \* five-octet form
      <<252, 128, 128, 128, 128, 128>> }   \* six-octet form

RECURSIVE Sources(_)
Sources(n) ==
    IF n = 0 THEN { <<>> }
    ELSE Sources(n - 1) \cup { s \o f : s \in Sources(n - 1), f \in Forms }

\* values of the bytes that lie after the terminator, whatever they are
GarbageBytes == {0, 65, 128, 240}

SeqsUpTo(S, n) == UNION { [1..k -> S] : k \in 0..n }

---------------------------------------------------------------------------
(* FAudio_UTF8_To_UTF16 *)

Unwritten == -1

\* *(dst + k) = v, v converted to uint16_t
Store(d, k, v) ==
    [j \in 1..(IF k + 1 > Len(d) THEN k + 1 ELSE Len(d)) |->
        IF j = k + 1 THEN v % 65536
        ELSE IF j <= Len(d) THEN d[j] ELSE Unwritten]

\* a writer that would keep the bogus value
Substitute_Kept(v) == v

\* else if (cp == UNICODE_BOGUS_CHAR_VALUE) cp = UNICODE_BOGUS_CHAR_CODEPOINT
Substitute(v) ==
    IF v = UNICODE_BOGUS_CHAR_VALUE THEN UNICODE_BOGUS_CHAR_CODEPOINT ELSE v

\* a writer that would ask for one unit of room only
PairNoRoomTest_OneUnit(l) == l < UnitSize

\* if (len < (sizeof (uint16_t) * 2)) break
PairNoRoomTest(l) == l < UnitSize * 2

\* 0xD800 + ((cp >> 10) & 0x3FF), after cp -= 0x10000
HighSurrogate(c) == 55296 + BitAnd(Shr(c - 65536, 10), 1023)

\* 0xDC00 + (cp & 0x3FF), after cp -= 0x10000
LowSurrogate(c) == 56320 + BitAnd(c - 65536, 1023)

InitConvert ==
    \E src \in Sources(MaxForms), c \in 0..MaxCap :
        /\ mem = src \o <<0>>
        /\ nul = Len(src) + 1
        /\ cur = 1
        /\ start = 0
        /\ raw = 0
        /\ cp = 0
        /\ dst = <<>>
        /\ dp = 0
        /\ len = c
        /\ cap = c
        /\ scalar = -1
        /\ pc = "entry"

\* a writer that would not save room for the null char
Reserve_None ==
    /\ pc = "entry"
    /\ pc' = "loop"
    /\ UNCHANGED <<mem, nul, cur, start, raw, cp, dst, dp, len, cap, scalar>>

\* len -= sizeof (uint16_t);   save room for null char
Reserve ==
    /\ pc = "entry"
    /\ len' = SizeSub(len, UnitSize)
    /\ pc' = "loop"
    /\ UNCHANGED <<mem, nul, cur, start, raw, cp, dst, dp, cap, scalar>>

\* while (len >= sizeof (uint16_t)) fails
LoopExit ==
    /\ pc = "loop"
    /\ len < UnitSize
    /\ pc' = "term"
    /\ UNCHANGED <<mem, nul, cur, start, raw, cp, dst, dp, len, cap, scalar>>

\* what the call at the cursor may find in the bytes it reads for the first
\* time: nothing when it stays within the bytes already known
Unread ==
    IF FAudio_UTF8_CodePoint(mem, cur).last <= Len(mem) THEN { <<>> }
    ELSE SeqsUpTo(GarbageBytes, nul + MaxGarbage - Len(mem)) \ { <<>> }

\* the loop test holds; cp = FAudio_UTF8_CodePoint(&src); break on 0; replace
\* the bogus value.  A byte after the terminator has whatever value the memory
\* holds there: it is chosen when first read and kept in mem.
Decode ==
    /\ pc = "loop"
    /\ len >= UnitSize
    /\ \E g \in Unread :
         LET m == mem \o g
             r == FAudio_UTF8_CodePoint(m, cur)
         IN  /\ r.last = Len(m) \/ g = <<>>
             /\ mem' = m
             /\ start' = cur
             /\ raw' = r.cp
             /\ cur' = cur + r.adv
             /\ cp' = Substitute(r.cp)
             /\ pc' = IF r.cp = 0 THEN "term" ELSE "emit"
    /\ UNCHANGED <<nul, dst, dp, len, cap, scalar>>

\* cp > 0xFFFF and no room for the pair: break
PairNoRoom ==
    /\ pc = "emit"
    /\ cp > 65535
    /\ PairNoRoomTest(len)
    /\ pc' = "term"
    /\ UNCHANGED <<mem, nul, cur, start, raw, cp, dst, dp, len, cap, scalar>>

\* cp > 0xFFFF: write the high surrogate, keep the low one in cp
EmitHigh ==
    /\ pc = "emit"
    /\ cp > 65535
    /\ ~PairNoRoomTest(len)
    /\ dst' = Store(dst, dp, HighSurrogate(cp))
    /\ dp' = dp + 1
    /\ len' = SizeSub(len, UnitSize)
    /\ cp' = LowSurrogate(cp)
    /\ pc' = "low"
    /\ UNCHANGED <<mem, nul, cur, start, raw, cap, scalar>>

\* *(dst++) = cp; len -= sizeof (uint16_t)
EmitUnit ==
    /\ IF pc = "emit" THEN cp <= 65535 ELSE pc = "low"
    /\ dst' = Store(dst, dp, cp)
    /\ dp' = dp + 1
    /\ len' = SizeSub(len, UnitSize)
    /\ pc' = "loop"
    /\ UNCHANGED <<mem, nul, cur, start, raw, cp, cap, scalar>>

\* a writer that would terminate only at the end of the string
Terminate_Skipped ==
    /\ pc = "term"
    /\ dst' = IF raw = 0 THEN Store(dst, dp, 0) ELSE dst
    /\ pc' = "done"
    /\ UNCHANGED <<mem, nul, cur, start, raw, cp, dp, len, cap, scalar>>

\* *dst = 0
Terminate ==
    /\ pc = "term"
    /\ dst' = Store(dst, dp, 0)
    /\ pc' = "done"
    /\ UNCHANGED <<mem, nul, cur, start, raw, cp, dp, len, cap, scalar>>

Next ==
    \/ Reserve
    \/ LoopExit
    \/ Decode
    \/ PairNoRoom
    \/ EmitHigh
    \/ EmitUnit
    \/ Terminate

Spec == InitConvert /\ [][Next]_vars

---------------------------------------------------------------------------
(* FAudio_UTF8_CodePoint called on its own, as FAudio_UTF8_To_UTF16 calls it: *)
(* again and again on the same cursor until it returns 0                      *)

\* bytes that follow the leading byte: ASCII, a continuation byte, a leading byte
TailBytes == {65, 128, 195}

InitDecode ==
    \E lead \in 1..255, tail \in SeqsUpTo(TailBytes, MaxTail) :
        /\ mem = <<lead>> \o tail \o <<0>>
        /\ nul = Len(tail) + 2
        /\ cur = 1
        /\ start = 0
        /\ raw = 0
        /\ cp = 0
        /\ dst = <<>>
        /\ dp = 0
        /\ len = 0
        /\ cap = 0
        /\ scalar = -1
        /\ pc = "call"

\* cp = FAudio_UTF8_CodePoint(&src); no byte outside the modelled memory is read
CallCodePoint ==
    /\ pc = "call"
    /\ cur <= Len(mem)
    /\ LET r == FAudio_UTF8_CodePoint(mem, cur)
       IN  /\ r.last <= Len(mem)
           /\ start' = cur
           /\ raw' = r.cp
           /\ cur' = cur + r.adv
           /\ pc' = IF r.cp = 0 THEN "eos" ELSE "call"
    /\ UNCHANGED <<mem, nul, cp, dst, dp, len, cap, scalar>>

NextDecode == CallCodePoint

SpecDecode == InitDecode /\ [][NextDecode]_vars

---------------------------------------------------------------------------
(* Round trip: the decoder on the minimal UTF-8 encoding of a scalar *)

\* the minimal two-, three- or four-byte UTF-8 encoding of s >= 0x80
UTF8Encode(s) ==
    IF s < 2048 THEN <<192 + (s \div 64), 128 + (s % 64)>>
    ELSE IF s < 65536 THEN
        <<224 + (s \div 4096), 128 + ((s \div 64) % 64), 128 + (s % 64)>>
    ELSE <<240 + (s \div 262144), 128 + ((s \div 4096) % 64),
           128 + ((s \div 64) % 64), 128 + (s % 64)>>

SevenSurrogates == {55296, 56191, 56192, 56319, 56320, 57216, 57343}

\* scalars of 0x10000..0x10FFFF: 0x10000 + h * 0x400 + l with the ten bits h
\* (the high surrogate's) or the ten bits l (the low surrogate's) at an edge
EdgeBits == {0, 1, 63, 64, 511, 512, 1022, 1023}

SupplementaryScalars ==
    { 65536 + h * 1024 + l : h \in 0..1023, l \in EdgeBits }
        \cup { 65536 + h * 1024 + l : h \in EdgeBits, l \in 0..1023 }

\* every scalar of 0x80..0x7FF and of 0x800..0xFFFD but the seven, and the
\* sampled ones above 0xFFFF
RoundTripScalars ==
    (128..2047) \cup ((2048..65533) \ SevenSurrogates) \cup SupplementaryScalars

InitRoundTrip ==
    \E s \in RoundTripScalars :
        /\ mem = UTF8Encode(s) \o <<0>>
        /\ nul = Len(UTF8Encode(s)) + 1
        /\ cur = 1
        /\ start = 0
        /\ raw = 0
        /\ cp = 0
        /\ dst = <<>>
        /\ dp = 0
        /\ len = 0
        /\ cap = 0
        /\ scalar = s
        /\ pc = "call"

SpecRoundTrip == InitRoundTrip /\ [][NextDecode]_vars

\* C7: the decoder on the minimal encoding of a scalar of the three ranges
\* (the seven rejected values left out) returns that scalar and advances the
\* cursor by the length of the encoding
C7_RoundTrip ==
    (scalar # -1 /\ start = 1) =>
        /\ raw = scalar
        /\ cur = 1 + Len(UTF8Encode(scalar))
        /\ cur = nul

C7_Witness ==
    /\ scalar = 55297
    /\ start = 1
    /\ raw = 55297
    /\ cur = 4

---------------------------------------------------------------------------
(* Claims about FAudio_UTF8_To_UTF16 (specification Spec) *)

HighSurrogates == 55296..56319
LowSurrogates == 56320..57343

\* C1: every unit written, content or terminator, lies inside the first len
\* bytes of the destination: unit index i is written only if 2 * (i + 1) <= len
C1_WritesWithinCapacity ==
    \A j \in 1..Len(dst) : dst[j] # Unwritten => UnitSize * j <= cap

\* C2: with room for at least one unit, the last write is a zero unit at the
\* index equal to the number of content units emitted, and no content unit
\* is zero
C2_SingleTerminator ==
    cap >= UnitSize =>
        /\ \A j \in 1..Len(dst) : j <= dp => dst[j] \notin {0, Unwritten}
        /\ pc # "done" => Len(dst) = dp
        /\ pc = "done" => Len(dst) = dp + 1 /\ dst[dp + 1] = 0

C2_Witness ==
    /\ pc = "done"
    /\ cap >= UnitSize
    /\ raw # 0
    /\ cp > 65535
    /\ dp >= 1
    /\ dst[dp + 1] = 0

\* the units of one decoder result
RefUnits(s) ==
    IF s = UNICODE_BOGUS_CHAR_VALUE THEN <<63>>
    ELSE IF s <= 65535 THEN <<s>>
    ELSE <<55296 + (((s - 65536) \div 1024) % 1024), 56320 + ((s - 65536) % 1024)>>

\* the results of successive decoder calls from index i up to the first 0
RECURSIVE RefScalars(_, _)
RefScalars(m, i) ==
    LET r == FAudio_UTF8_CodePoint(m, i)
    IN  IF i > Len(m) \/ r.last > Len(m) \/ r.cp = 0 THEN <<>>
        ELSE <<r.cp>> \o RefScalars(m, i + r.adv)

RECURSIVE RefEncode(_, _)
RefEncode(ss, n) ==
    IF n = 0 THEN <<>> ELSE RefEncode(ss, n - 1) \o RefUnits(ss[n])

\* the longest prefix of whole scalars that fits in b units, and a zero unit
RefOutput(ss, b) ==
    LET fits == { n \in 0..Len(ss) : Len(RefEncode(ss, n)) <= b }
        best == CHOOSE n \in fits : \A k \in fits : k <= n
    IN  RefEncode(ss, best) \o <<0>>

\* (len / 2) - 1 units, len being the size_t argument
RefBudget == SizeSub(cap \div UnitSize, 1)

\* C3: the destination holds the reference encoding of the decoder's scalars
\* ('?' for a bogus result, one unit up to 0xFFFF, a surrogate pair above),
\* cut to the longest prefix of whole scalars fitting in (len/2)-1 units, and
\* a zero unit; "A" gives [0x41, 0] and C0 80 gives [0x3F, 0]
C3_ReferenceEncoding ==
    pc = "done" =>
        /\ dst = RefOutput(RefScalars(mem, 1), RefBudget)
        /\ (mem = <<65, 0>> /\ cap = 4 * UnitSize) => dst = <<65, 0>>
        /\ (mem = <<192, 128, 0>> /\ cap = 4 * UnitSize) => dst = <<63, 0>>

C3_Witness ==
    /\ pc = "done"
    /\ cap = 3 * UnitSize
    /\ mem = <<192, 128, 240, 144, 128, 128, 0>>
    /\ dst = <<63, 0>>

C8_OnlyTerminator ==
    (pc = "done" /\ cap = 2 * UnitSize /\ nul > 1) => (dp = 0 /\ dst = <<0>>)

\* C8 as amended: with that capacity the budget is one unit: one content unit
\* is written, none only when the first scalar needs a surrogate pair; it is
\* the capacity of exactly sizeof(uint16_t) bytes that leaves only the terminator
C8_Amended ==
    (pc = "done" /\ nul > 1) =>
        /\ cap = UnitSize => (dp = 0 /\ dst = <<0>>)
        /\ cap = 2 * UnitSize =>
              /\ dp <= 1
              /\ Len(dst) = dp + 1
              /\ dp = 0 <=> FAudio_UTF8_CodePoint(mem, 1).cp > 65535

C8_Witness ==
    /\ pc = "done"
    /\ cap = 2 * UnitSize
    /\ nul > 2
    /\ dp = 1
    /\ dst = <<65, 0>>

\* C9: a scalar above 0xFFFF met with less than two units of budget stops the
\* loop with nothing written for it; otherwise the high surrogate is written
\* and the very next write is its low surrogate, never the terminator
C9_PairsAtomic ==
    [][ /\ (pc = "emit" /\ cp > 65535 /\ len < 2 * UnitSize) =>
              (pc' = "term" /\ dst' = dst /\ dp' = dp)
        /\ (pc = "emit" /\ cp > 65535 /\ len >= 2 * UnitSize) =>
              /\ pc' = "low"
              /\ dp' = dp + 1
              /\ dst'[dp + 1] = 55296 + (((cp - 65536) \div 1024) % 1024)
              /\ cp' = 56320 + ((cp - 65536) % 1024)
        /\ pc = "low" =>
              /\ dst[dp] \in HighSurrogates
              /\ dp' = dp + 1
              /\ dst' = Append(dst, cp)
              /\ cp \in LowSurrogates
              /\ UnitSize * dp' <= cap \/ cap < UnitSize
      ]_vars

C9_Witness ==
    /\ pc = "term"
    /\ cp > 65535
    /\ len < 2 * UnitSize
    /\ dp >= 2
    /\ dst[dp] \in LowSurrogates

\* C10: after every decoder call the cursor is at or before the source's
\* first zero byte (stated for the capacities of at least one unit, where
\* len does not wrap)
C10_CursorWithinString ==
    (start # 0 /\ cap >= UnitSize) => cur <= nul

---------------------------------------------------------------------------
(* Claims about FAudio_UTF8_CodePoint (specification SpecDecode) *)

\* continuation bytes the leading byte b announces
Expected(b) ==
    IF b < 224 THEN 1 ELSE IF b < 240 THEN 2 ELSE IF b < 248 THEN 3
    ELSE IF b < 252 THEN 4 ELSE 5

\* the k of the first expected byte after index i that is not 10xxxxxx, 0 if none
Offending(m, i) ==
    LET bad == { k \in 1..Expected(m[i]) : Rd(m, i + k) \notin 128..191 }
    IN  IF bad = {} THEN 0 ELSE CHOOSE k \in bad : \A j \in bad : k <= j

\* C5: a call on a non-zero leading byte advances the cursor by 1 to 6 bytes;
\* a call on a zero byte returns 0
C5_AdvanceOneToSix ==
    start # 0 =>
        IF mem[start] # 0 THEN cur - start \in 1..6
        ELSE raw = 0

\* C6: when the k-th expected continuation byte of a multi-byte form is absent
\* or malformed, the call returns the bogus value and leaves the cursor on
\* that byte
C6_CursorOnOffendingByte ==
    (start # 0 /\ mem[start] >= 192 /\ Offending(mem, start) # 0) =>
        /\ raw = UNICODE_BOGUS_CHAR_VALUE
        /\ cur = start + Offending(mem, start)

\* C6 as amended: the call returns the bogus value and leaves the cursor
\* advanced by exactly one byte, just past the leading byte, whatever k is
\* (for k = 1 that is the offending byte, for k > 1 the first continuation
\* byte, which the next call reports as a bogus leading byte)
C6_Amended ==
    (start # 0 /\ mem[start] >= 192 /\ Offending(mem, start) # 0) =>
        /\ raw = UNICODE_BOGUS_CHAR_VALUE
        /\ cur = start + 1

C6_Witness ==
    /\ start = 1
    /\ mem[1] = 252
    /\ Offending(mem, 1) = 5
    /\ raw = UNICODE_BOGUS_CHAR_VALUE
    /\ cur = 2

====
